---- MODULE Spec2Model ----
(***************************************************************************)
(* A model of the declaration reflection builder of                        *)
(* src/lib/converter/factories/declaration.ts: createDeclaration,          *)
(* setupDeclaration and mergeDeclarations, together with the parts of the  *)
(* conversion context they read and write.                                 *)
(*                                                                         *)
(* One container reflection (context.scope) is modelled with its children. *)
(* An invocation of createDeclaration is one atomic step: the builder is   *)
(* synchronous and single-threaded.  The arguments and the result of the   *)
(* latest invocation stay visible in `call` and `ret` until the caller     *)
(* goes on.                                                                *)
(***************************************************************************)
EXTENDS Integers, Sequences, FiniteSets, TLC

VARIABLES
    scope,      \* context.scope: the container reflection (without its children)
    children,   \* container.children: sequence of declaration reflections
    context,    \* isDeclaration, isExternal, isInherit, inheritParent, inherited,
                \* inheritedChildren
    converter,  \* context.converter: mode, excludeNotExported
    registry,   \* context.registerReflection: ids of the registered reflections
    events,     \* notifications triggered by the latest invocation
    call,       \* arguments of the latest invocation
    ret         \* its outcome: result and the values of its local variables

vars == <<scope, children, context, converter, registry, events, call, ret>>

---------------------------------------------------------------------------
(* Bounds of the model *)

\* At most this many children are created under the container.
MaxChildren == 2

\* At most this many signatures are attached to one reflection.
MaxSignatures == 1

---------------------------------------------------------------------------
(* Reflection kinds and the constant lists of the source *)

nonStaticKinds == {"Class", "Interface", "Module"}

considerInheritedExportKinds ==
    {"Accessor", "Constructor", "ConstructorSignature", "EnumMember", "Event",
     "GetSignature", "IndexSignature", "Method", "Parameter", "Property",
     "SetSignature", "TypeParameter"}

\* const weights = [ReflectionKind.Module, ReflectionKind.Enum, ReflectionKind.Class]
weights == <<"Module", "Enum", "Class">>

\* Array.prototype.indexOf: the zero-based index of the first occurrence, -1 if absent
indexOf(seq, x) ==
    IF \E i \in DOMAIN seq : seq[i] = x
    THEN (CHOOSE i \in DOMAIN seq :
              seq[i] = x /\ \A j \in DOMAIN seq : seq[j] = x => i <= j) - 1
    ELSE -1

---------------------------------------------------------------------------
(* Symbols, nodes and references *)

\* symbol.name of the symbols of the model; two symbols share the name "a"
SymbolNames == <<"a", "a", "b">>
Symbols == DOMAIN SymbolNames
NoSymbol == 0

\* the absent (undefined) name argument; falsy like the empty string
NoName == ""

\* an absent reference (reflection.inheritedFrom / overwrites undefined)
NoReference == [symbolID |-> 0, name |-> ""]

\* createReferenceType(context, symbol, true): an opaque reference to the symbol
createReferenceType(symbol) ==
    [symbolID |-> symbol, name |-> SymbolNames[symbol]]

\* node.parent of a node without parent
NoParent == [id |-> 0, kind |-> "None", parent |-> [modifiers |-> {}]]

\* ts.getCombinedModifierFlags(node): the node carries its combined flags
getCombinedModifierFlags(node) == node.modifiers

---------------------------------------------------------------------------
(* Flags of a reflection *)

\* Reflection.setFlag(flag, value)
setFlag(reflection, flag, value) ==
    [reflection EXCEPT !.flags = IF value THEN @ \cup {flag} ELSE @ \ {flag}]

\* new DeclarationReflection(container, name, kind): a blank reflection
newDeclarationReflection(id, name, kind) ==
    [id |-> id, name |-> name, kind |-> kind, flags |-> {},
     inheritedFrom |-> NoReference, overwrites |-> NoReference,
     signatures |-> <<>>]

\* a blank signature reflection
NewSignature == [inheritedFrom |-> NoReference, overwrites |-> NoReference]

---------------------------------------------------------------------------
(* createDeclaration, step by step *)

\* the naming with a fallback name for a node without symbol
resolveNameFallback(node, name) ==
    IF name # NoName THEN name
    ELSE IF node.localSymbol # NoSymbol THEN SymbolNames[node.localSymbol]
    ELSE IF node.symbol # NoSymbol THEN SymbolNames[node.symbol]
    ELSE "default"

\* lines 51-60: the name of the reflection; NoName when the node is unnamed
resolveName(node, name) ==
    IF name # NoName THEN name
    ELSE IF node.localSymbol # NoSymbol THEN SymbolNames[node.localSymbol]
    ELSE IF node.symbol # NoSymbol THEN SymbolNames[node.symbol]
    ELSE NoName

\* the starting state without the test of the syntax kind of the node
inheritedExportByKind(container, node, kind) ==
    IF \/ container.kind \in {"Module", "ExternalModule"}
       \/ /\ kind \notin considerInheritedExportKinds
          /\ container.kind \notin {"ObjectLiteral", "TypeLiteral"}
    THEN FALSE
    ELSE container.isExported

\* lines 66-78: the exported state the node starts from
inheritedExport(container, node, kind) ==
    IF \/ container.kind \in {"Module", "ExternalModule"}
       \/ /\ \/ kind \notin considerInheritedExportKinds
             \/ node.kind = "VariableDeclaration"
             \/ node.kind = "FunctionDeclaration"
          /\ container.kind \notin {"ObjectLiteral", "TypeLiteral"}
    THEN FALSE
    ELSE container.isExported

\* the resolution without the ambient modifier among the forcing conditions
resolveExportedNoAmbient(container, ctx, conv, node, kind) ==
    LET modifiers == getCombinedModifierFlags(node)
        isExported == inheritedExport(container, node, kind)
    IN  IF \/ kind = "ExternalModule"
           \/ ctx.isDeclaration
           \/ (container.isProject /\ ~ctx.isDeclaration /\ conv.mode = "File")
        THEN TRUE
        ELSE IF node.parent.id # 0 /\ node.parent.kind = "VariableDeclarationList"
        THEN isExported \/ "Export" \in node.parent.parent.modifiers
        ELSE isExported \/ "Export" \in modifiers

\* the resolution with the export modifier and-ed to the inherited state
resolveExportedAnd(container, ctx, conv, node, kind) ==
    LET modifiers == getCombinedModifierFlags(node)
        isExported == inheritedExport(container, node, kind)
    IN  IF \/ kind = "ExternalModule"
           \/ ctx.isDeclaration
           \/ "Ambient" \in modifiers
           \/ (container.isProject /\ ~ctx.isDeclaration /\ conv.mode = "File")
        THEN TRUE
        ELSE IF node.parent.id # 0 /\ node.parent.kind = "VariableDeclarationList"
        THEN isExported /\ "Export" \in node.parent.parent.modifiers
        ELSE isExported /\ "Export" \in modifiers

\* lines 80-88: the resolved exported state
resolveExported(container, ctx, conv, node, kind) ==
    LET modifiers == getCombinedModifierFlags(node)
        isExported == inheritedExport(container, node, kind)
    IN  IF \/ kind = "ExternalModule"
           \/ ctx.isDeclaration
           \/ "Ambient" \in modifiers
           \/ (container.isProject /\ ~ctx.isDeclaration /\ conv.mode = "File")
        THEN TRUE
        ELSE IF node.parent.id # 0 /\ node.parent.kind = "VariableDeclarationList"
        THEN isExported \/ "Export" \in node.parent.parent.modifiers
        ELSE isExported \/ "Export" \in modifiers

\* line 95
resolvePrivate(node) == "Private" \in getCombinedModifierFlags(node)

\* the static flag resolved for every kind, Class, Interface and Module
\* included
resolveStaticAnyKind(container, node, kind) ==
    IF /\ container.kind = "Class"
       /\ ~(node.parent.id # 0 /\ node.parent.kind = "Constructor")
       /\ (node.parent.id = 0 \/ node.parent.kind # "ClassDeclaration")
    THEN TRUE
    ELSE "Static" \in getCombinedModifierFlags(node)

\* the static flag taken from the modifier alone
resolveStaticByModifier(container, node, kind) ==
    IF kind \notin nonStaticKinds
    THEN "Static" \in getCombinedModifierFlags(node)
    ELSE FALSE

\* the static flag without the exception for the children of a constructor
resolveStaticNoConstructor(container, node, kind) ==
    IF kind \notin nonStaticKinds
    THEN IF /\ container.kind = "Class"
            /\ (node.parent.id = 0 \/ node.parent.kind # "ClassDeclaration")
         THEN TRUE
         ELSE "Static" \in getCombinedModifierFlags(node)
    ELSE FALSE

\* lines 102-112: the static flag
resolveStatic(container, node, kind) ==
    IF kind \notin nonStaticKinds
    THEN IF /\ container.kind = "Class"
            /\ ~(node.parent.id # 0 /\ node.parent.kind = "Constructor")
            /\ (node.parent.id = 0 \/ node.parent.kind # "ClassDeclaration")
         THEN TRUE
         ELSE "Static" \in getCombinedModifierFlags(node)
    ELSE FALSE

\* lines 101-112: the constructor property flag
resolveConstructorProperty(container, node, kind) ==
    /\ kind \notin nonStaticKinds
    /\ container.kind = "Class"
    /\ node.parent.id # 0
    /\ node.parent.kind = "Constructor"

\* the lookup, comparing the kind where the source compares the static flag
findChildByKind(kids, name, isStatic) ==
    LET matches == {i \in DOMAIN kids :
                       kids[i].name = name
                       /\ (kids[i].kind \in nonStaticKinds) = ~isStatic}
    IN  IF matches = {} THEN 0
        ELSE CHOOSE i \in matches : \A j \in matches : j <= i

\* the lookup, stopping at the first match
findChildFirst(kids, name, isStatic) ==
    LET matches == {i \in DOMAIN kids :
                       kids[i].name = name /\ ("Static" \in kids[i].flags) = isStatic}
    IN  IF matches = {} THEN 0
        ELSE CHOOSE i \in matches : \A j \in matches : i <= j

\* lines 115-121: the index of the child the forEach loop leaves in `child`
\* (every match overwrites the previous one), 0 when there is none
findChild(kids, name, isStatic) ==
    LET matches == {i \in DOMAIN kids :
                       kids[i].name = name /\ ("Static" \in kids[i].flags) = isStatic}
    IN  IF matches = {} THEN 0
        ELSE CHOOSE i \in matches : \A j \in matches : j <= i

\* lines 168-171 and 203-205: node.parent === context.inheritParent
\*   || reflection.flags.isConstructorProperty
fromInheritParent(ctx, reflection, node) ==
    \/ node.parent.id = ctx.inheritParent
    \/ "ConstructorProperty" \in reflection.flags

\* lines 157-181
setupDeclaration(ctx, reflection, node) ==
    LET modifiers == getCombinedModifierFlags(node)
        r1 == setFlag(reflection, "External", ctx.isExternal)
        r2 == setFlag(r1, "Protected", "Protected" \in modifiers)
        r3 == setFlag(r2, "Public", "Public" \in modifiers)
        r4 == setFlag(r3, "Optional", node.questionToken)
        r5 == setFlag(r4, "Abstract", "Abstract" \in modifiers)
        r6 == setFlag(r5, "Readonly", "Readonly" \in modifiers)
        r7 == setFlag(r6, "Ambient", "Ambient" \in modifiers)
    IN  IF ctx.isInherit /\ fromInheritParent(ctx, r7, node)
           /\ r7.inheritedFrom = NoReference
        THEN [r7 EXCEPT
                !.inheritedFrom = createReferenceType(node.symbol),
                !.signatures = [i \in DOMAIN @ |->
                    [@[i] EXCEPT !.inheritedFrom = createReferenceType(node.symbol)]]]
        ELSE r7

\* the reconciliation, taking the incoming kind only when both kinds are in
\* the list of weights
mergeKindRankedOnly(reflectionKind, kind) ==
    IF /\ reflectionKind # kind
       /\ indexOf(weights, kind) # -1
       /\ indexOf(weights, reflectionKind) # -1
       /\ indexOf(weights, kind) > indexOf(weights, reflectionKind)
    THEN kind
    ELSE reflectionKind

\* the reconciliation, taking the incoming kind whenever it differs
mergeKindAlways(reflectionKind, kind) ==
    IF reflectionKind # kind /\ indexOf(weights, kind) # indexOf(weights, reflectionKind)
    THEN kind
    ELSE reflectionKind

\* lines 193-200: the kind after reconciliation
mergeKind(reflectionKind, kind) ==
    IF reflectionKind # kind /\ indexOf(weights, kind) > indexOf(weights, reflectionKind)
    THEN kind
    ELSE reflectionKind

\* lines 202-206: the merge is an override met during an inheritance walk
isOverride(ctx, reflection, node) ==
    /\ ctx.isInherit
    /\ reflection.name \in ctx.inherited
    /\ fromInheritParent(ctx, reflection, node)

\* the merge, setting up the existing reflection from the incoming node as
\* if it were new
mergeDeclarationsSetup(ctx, reflection, node, kind) ==
    LET r0 == setupDeclaration(ctx, reflection, node)
        r1 == [r0 EXCEPT !.kind = mergeKind(@, kind)]
    IN  IF isOverride(ctx, r1, node)
        THEN [reflection |->
                IF r1.overwrites = NoReference
                THEN [r1 EXCEPT
                        !.overwrites = createReferenceType(node.symbol),
                        !.signatures = [i \in DOMAIN @ |->
                            [@[i] EXCEPT !.overwrites = createReferenceType(node.symbol)]]]
                ELSE r1,
              returned |-> FALSE]
        ELSE [reflection |-> r1, returned |-> TRUE]

\* the merge, recording the override on the reflection but not on its
\* signatures
mergeDeclarationsNoSignatures(ctx, reflection, node, kind) ==
    LET r1 == [reflection EXCEPT !.kind = mergeKind(@, kind)]
    IN  IF isOverride(ctx, r1, node)
        THEN [reflection |->
                IF r1.overwrites = NoReference
                THEN [r1 EXCEPT !.overwrites = createReferenceType(node.symbol)]
                ELSE r1,
              returned |-> FALSE]
        ELSE [reflection |-> r1, returned |-> TRUE]

\* the merge, recording the override without testing reflection.overwrites
mergeDeclarationsOverwriting(ctx, reflection, node, kind) ==
    LET r1 == [reflection EXCEPT !.kind = mergeKind(@, kind)]
    IN  IF isOverride(ctx, r1, node)
        THEN [reflection |->
                [r1 EXCEPT
                    !.overwrites = createReferenceType(node.symbol),
                    !.signatures = [i \in DOMAIN @ |->
                        [@[i] EXCEPT !.overwrites = createReferenceType(node.symbol)]]],
              returned |-> FALSE]
        ELSE [reflection |-> r1, returned |-> TRUE]

\* lines 192-217: the reflection after the merge, and whether it is returned
mergeDeclarations(ctx, reflection, node, kind) ==
    LET r1 == [reflection EXCEPT !.kind = mergeKind(@, kind)]
    IN  IF isOverride(ctx, r1, node)
        THEN [reflection |->
                IF r1.overwrites = NoReference
                THEN [r1 EXCEPT
                        !.overwrites = createReferenceType(node.symbol),
                        !.signatures = [i \in DOMAIN @ |->
                            [@[i] EXCEPT !.overwrites = createReferenceType(node.symbol)]]]
                ELSE r1,
              returned |-> FALSE]
        ELSE [reflection |-> r1, returned |-> TRUE]

\* context.registerReflection(child, node)
registerReflection(reg, child, node) ==
    reg \cup {child.id}

\* context.trigger(Converter.EVENT_CREATE_DECLARATION, child, node): what a
\* synchronous listener is handed and what it can observe at that moment
trigger(kids, reg, child, node) ==
    [reflection |-> child,
     symbol |-> node.symbol,
     isChild |-> \E i \in DOMAIN kids : kids[i].id = child.id,
     isRegistered |-> child.id \in reg]

\* the values of the local variables of an invocation that returned early
NoLocals == [isExported |-> FALSE, isPrivate |-> FALSE, isStatic |-> FALSE,
             isConstructorProperty |-> FALSE]

\* what an invocation leaves behind: its result (the id of the returned
\* reflection, 0 for null), the children, the registry and the notifications
Outcome(o, child, name, locals, kids, reg, evs) ==
    [ret |-> [outcome |-> o, child |-> child, name |-> name,
              isExported |-> locals.isExported,
              isPrivate |-> locals.isPrivate,
              isStatic |-> locals.isStatic,
              isConstructorProperty |-> locals.isConstructorProperty],
     children |-> kids, registry |-> reg, events |-> evs]

\* the create path with the notification sent before the child is appended
\* and registered
createChildNotifyFirst(container, kids, reg, ctx, node, kind, name, locals) ==
    LET c0 == newDeclarationReflection(Len(kids) + 1, name, kind)
        c1 == setFlag(c0, "Static", locals.isStatic)
        c2 == setFlag(c1, "Private", locals.isPrivate)
        c3 == setFlag(c2, "ConstructorProperty", locals.isConstructorProperty)
        c4 == setFlag(c3, "Exported", locals.isExported)
        child == setupDeclaration(ctx, c4, node)
        kids1 == Append(kids, child)
        reg1 == registerReflection(reg, child, node)
    IN  Outcome("created", child.id, name, locals, kids1, reg1,
                <<trigger(kids, reg, child, node)>>)

\* lines 123-135 and 142-146: the create path
createChild(container, kids, reg, ctx, node, kind, name, locals) ==
    LET c0 == newDeclarationReflection(Len(kids) + 1, name, kind)
        c1 == setFlag(c0, "Static", locals.isStatic)
        c2 == setFlag(c1, "Private", locals.isPrivate)
        c3 == setFlag(c2, "ConstructorProperty", locals.isConstructorProperty)
        c4 == setFlag(c3, "Exported", locals.isExported)
        child == setupDeclaration(ctx, c4, node)
        kids1 == Append(kids, child)
        reg1 == registerReflection(reg, child, node)
    IN  Outcome("created", child.id, name, locals, kids1, reg1,
                <<trigger(kids1, reg1, child, node)>>)

\* the merge path with the notification sent whatever the merge returns
mergeChildNotifyAlways(kids, reg, ctx, node, kind, name, i, locals) ==
    LET m == mergeDeclarations(ctx, kids[i], node, kind)
        kids1 == [kids EXCEPT ![i] = m.reflection]
    IN  IF m.returned
        THEN Outcome("merged", kids[i].id, name, locals, kids1, reg,
                     <<trigger(kids1, reg, m.reflection, node)>>)
        ELSE Outcome("override", 0, name, locals, kids1, reg,
                     <<trigger(kids1, reg, m.reflection, node)>>)

\* lines 136-146: the merge path
mergeChild(kids, reg, ctx, node, kind, name, i, locals) ==
    LET m == mergeDeclarations(ctx, kids[i], node, kind)
        kids1 == [kids EXCEPT ![i] = m.reflection]
    IN  IF m.returned
        THEN Outcome("merged", kids[i].id, name, locals, kids1, reg,
                     <<trigger(kids1, reg, m.reflection, node)>>)
        ELSE Outcome("override", 0, name, locals, kids1, reg, <<>>)

\* the exclusion test without its negation
exportedExcluded(isExported, conv) ==
    isExported /\ conv.excludeNotExported

\* line 90: the declaration is dropped as not exported
notExportedExcluded(isExported, conv) ==
    ~isExported /\ conv.excludeNotExported

\* the exclusion test with the inheritance mode negated
privateExcludedOutsideWalk(ctx, isPrivate) ==
    ~ctx.isInherit /\ isPrivate

\* line 96: a private member met during an inheritance walk is dropped
privateExcluded(ctx, isPrivate) ==
    ctx.isInherit /\ isPrivate

\* lines 45-147: the whole invocation
declare(container, kids, reg, ctx, conv, node, kind, nameArg) ==
    LET name == resolveName(node, nameArg)
        isExported == resolveExported(container, ctx, conv, node, kind)
        isPrivate == resolvePrivate(node)
        locals == [isExported |-> isExported,
                   isPrivate |-> isPrivate,
                   isStatic |-> resolveStatic(container, node, kind),
                   isConstructorProperty |->
                       resolveConstructorProperty(container, node, kind)]
        i == findChild(kids, name, locals.isStatic)
    IN  IF ~container.isContainer
        THEN Outcome("throw", 0, NoName, NoLocals, kids, reg, <<>>)
        ELSE IF name = NoName
        THEN Outcome("unnamed", 0, NoName, NoLocals, kids, reg, <<>>)
        ELSE IF notExportedExcluded(isExported, conv)
        THEN Outcome("notExported", 0, name,
                     [NoLocals EXCEPT !.isExported = isExported], kids, reg, <<>>)
        ELSE IF privateExcluded(ctx, isPrivate)
        THEN Outcome("private", 0, name,
                     [NoLocals EXCEPT !.isExported = isExported,
                                      !.isPrivate = isPrivate], kids, reg, <<>>)
        ELSE IF i = 0
        THEN createChild(container, kids, reg, ctx, node, kind, name, locals)
        ELSE mergeChild(kids, reg, ctx, node, kind, name, i, locals)

---------------------------------------------------------------------------
(* The nodes, kinds and settings the model draws its inputs from *)

ClassDeclarationA == [id |-> 1, kind |-> "ClassDeclaration", parent |-> [modifiers |-> {}]]
ClassDeclarationB == [id |-> 2, kind |-> "ClassDeclaration", parent |-> [modifiers |-> {}]]
ConstructorA == [id |-> 3, kind |-> "Constructor", parent |-> [modifiers |-> {}]]
ModuleBlock == [id |-> 4, kind |-> "ModuleBlock", parent |-> [modifiers |-> {}]]
\* a variable declaration list below a variable statement with the given
\* modifiers
VariableDeclarationList(mods) ==
    [id |-> 5, kind |-> "VariableDeclarationList", parent |-> [modifiers |-> mods]]

\* the base class declarations an inheritance walk can start from
BaseNodes == {ClassDeclarationA.id, ClassDeclarationB.id}

\* The nodes of the given syntax kinds and parents, with the given combined
\* modifiers and symbols.  A variable declaration takes its modifiers from its
\* variable statement: the combined flags of the declaration are those of the
\* statement.  A node with a local symbol has a symbol; an unnamed node has
\* neither.
NodesOf(shapes, modifierSets, symbols, localSymbols, questionTokens) ==
    {[kind |-> sh[1],
      parent |-> IF sh[2].kind = "VariableDeclarationList"
                 THEN VariableDeclarationList(m) ELSE sh[2],
      modifiers |-> m, questionToken |-> q, symbol |-> s, localSymbol |-> l] :
        sh \in shapes, m \in modifierSets, s \in symbols,
        l \in localSymbols, q \in questionTokens}

UnnamedNode ==
    [kind |-> "SourceFile", parent |-> NoParent, modifiers |-> {},
     questionToken |-> FALSE, symbol |-> NoSymbol, localSymbol |-> NoSymbol]

NoCall == [node |-> UnnamedNode, kind |-> "None", name |-> NoName]
Idle == [outcome |-> "none", child |-> 0, name |-> NoName] @@ NoLocals

Shapes ==
    {<<"MethodDeclaration", ClassDeclarationA>>,
     <<"MethodDeclaration", ClassDeclarationB>>,
     <<"Parameter", ConstructorA>>,
     <<"FunctionDeclaration", ModuleBlock>>,
     <<"ModuleDeclaration", ModuleBlock>>,
     <<"VariableDeclaration", VariableDeclarationList({})>>,
     <<"SourceFile", NoParent>>}

---------------------------------------------------------------------------
(* The state machine *)

\* createDeclaration(context, node, kind, name): one whole invocation
createDeclaration(node, kind, name) ==
    /\ ret.outcome = "none"
    /\ \E r \in {declare(scope, children, registry, context, converter,
                        node, kind, name)} :
           /\ r.ret.outcome = "created" => Len(children) < MaxChildren
           /\ children' = r.children
           /\ registry' = r.registry
           /\ events' = r.events
           /\ ret' = r.ret
    /\ call' = [node |-> node, kind |-> kind, name |-> name]
    /\ UNCHANGED <<scope, context, converter>>

\* line 146: the caller takes the result and goes on with the conversion
return ==
    /\ ret.outcome # "none"
    /\ ret' = Idle
    /\ call' = NoCall
    /\ events' = <<>>
    /\ UNCHANGED <<scope, children, context, converter, registry>>

\* Context.inherit(baseNode): an inheritance walk starts; the names of the
\* children the container has at that moment are the inherited names.  A base
\* declaration is walked once.
inherit(baseNode) ==
    /\ ret.outcome = "none"
    /\ ~context.isInherit
    /\ baseNode \notin context.inheritedChildren
    /\ context' = [context EXCEPT
                     !.isInherit = TRUE,
                     !.inheritParent = baseNode,
                     !.inherited = {children[i].name : i \in DOMAIN children},
                     !.inheritedChildren = @ \cup {baseNode}]
    /\ UNCHANGED <<scope, children, converter, registry, events, call, ret>>

\* Context.inherit returns: the walk is over
endInherit ==
    /\ ret.outcome = "none"
    /\ context.isInherit
    /\ context' = [context EXCEPT
                     !.isInherit = FALSE, !.inheritParent = 0, !.inherited = {}]
    /\ UNCHANGED <<scope, children, converter, registry, events, call, ret>>

\* a signature is attached to a child (DeclarationReflection.signatures)
addSignature(i) ==
    /\ ret.outcome = "none"
    /\ i \in DOMAIN children
    /\ Len(children[i].signatures) < MaxSignatures
    /\ children' = [children EXCEPT ![i].signatures = Append(@, NewSignature)]
    /\ UNCHANGED <<scope, context, converter, registry, events, call, ret>>

---------------------------------------------------------------------------
(* Settings shared by the specifications *)

ScopeOf(kind, isExported) ==
    [isContainer |-> TRUE, isProject |-> FALSE, kind |-> kind,
     isExported |-> isExported]

\* the ProjectReflection
ProjectScope ==
    [isContainer |-> TRUE, isProject |-> TRUE, kind |-> "Global",
     isExported |-> FALSE]

\* a scope that is no ContainerReflection
NonContainerScope ==
    [isContainer |-> FALSE, isProject |-> FALSE, kind |-> "Parameter",
     isExported |-> FALSE]

\* the context outside declaration files, external files and inheritance walks
PlainContext ==
    [isDeclaration |-> FALSE, isExternal |-> FALSE,
     isInherit |-> FALSE, inheritParent |-> 0, inherited |-> {},
     inheritedChildren |-> {}]

PlainConverter == [mode |-> "Modules", excludeNotExported |-> FALSE]

\* the children of a container after one invocation in the plain context
ChildrenAfter(sc, node, kind) ==
    declare(sc, <<>>, {}, PlainContext, PlainConverter, node, kind, NoName).children

\* the ids of the given children: all of them are registered
RegistryOf(kids) == {kids[i].id : i \in DOMAIN kids}

NamesOf(kids) == {kids[i].name : i \in DOMAIN kids}

---------------------------------------------------------------------------
(* Spec: sequences of invocations that create and merge the children of    *)
(* one container, outside inheritance walks                                *)

SeqKinds == {"Module", "Enum", "Class", "Method"}
SeqModifiers == {{}, {"Static"}}
SeqShapes ==
    {<<"MethodDeclaration", ClassDeclarationA>>,
     <<"Parameter", ConstructorA>>,
     <<"ModuleDeclaration", ModuleBlock>>}
SeqNodes ==
    NodesOf(SeqShapes, SeqModifiers, Symbols, {NoSymbol}, {FALSE})
        \cup {UnnamedNode}
SeqScopes == {ScopeOf("Class", TRUE), ScopeOf("Module", FALSE)}

Init ==
    /\ scope \in SeqScopes
    /\ children = <<>>
    /\ context = PlainContext
    /\ converter = PlainConverter
    /\ registry = {}
    /\ events = <<>>
    /\ call = NoCall
    /\ ret = Idle

Next ==
    \/ \E node \in SeqNodes, kind \in SeqKinds :
           createDeclaration(node, kind, NoName)
    \/ return

Spec == Init /\ [][Next]_vars

---------------------------------------------------------------------------
(* SpecInherit: the members of a class, declared and then met again during *)
(* inheritance walks over its base classes.  The two symbols named "a" are *)
(* the declarations of the member in different classes.                    *)

InheritKinds == {"Module", "Class", "Method"}
InheritModifiers == {{}, {"Private"}}
InheritShapes ==
    {<<"MethodDeclaration", ClassDeclarationA>>,
     <<"MethodDeclaration", ClassDeclarationB>>,
     <<"Parameter", ConstructorA>>}
InheritNodes ==
    NodesOf(InheritShapes, InheritModifiers, {1, 2}, {NoSymbol}, {FALSE})

\* a member "b" the class declares itself
SiblingNode ==
    [kind |-> "MethodDeclaration", parent |-> ClassDeclarationB, modifiers |-> {},
     questionToken |-> FALSE, symbol |-> 3, localSymbol |-> NoSymbol]

InitInherit ==
    /\ scope = ScopeOf("Class", TRUE)
    /\ children \in {<<>>, ChildrenAfter(scope, SiblingNode, "Method")}
    /\ context = PlainContext
    /\ converter = PlainConverter
    /\ registry = RegistryOf(children)
    /\ events = <<>>
    /\ call = NoCall
    /\ ret = Idle

NextInherit ==
    \/ \E node \in InheritNodes, kind \in InheritKinds :
           createDeclaration(node, kind, NoName)
    \/ return
    \/ \E baseNode \in BaseNodes : inherit(baseNode)
    \/ endInherit
    \/ \E i \in 1..MaxChildren : addSignature(i)

SpecInherit == InitInherit /\ [][NextInherit]_vars

---------------------------------------------------------------------------
(* SpecStep: one invocation, its arguments and the state it meets drawn    *)
(* from wide sets.  The container is empty or holds one child left by an   *)
(* earlier invocation.                                                     *)

StepScopes ==
    {ScopeOf(k, e) :
        k \in {"Class", "Module", "ExternalModule", "ObjectLiteral", "TypeLiteral"},
        e \in BOOLEAN}
    \cup {ProjectScope, NonContainerScope}

\* the contexts of an invocation that meets the given children: outside a
\* walk, or inside one that started when the container held the given names
StepContexts(isDeclarations, isExternals, inheriteds) ==
    {[isDeclaration |-> d, isExternal |-> x, isInherit |-> FALSE,
      inheritParent |-> 0, inherited |-> {}, inheritedChildren |-> {}] :
        d \in isDeclarations, x \in isExternals}
    \cup
    {[isDeclaration |-> d, isExternal |-> x, isInherit |-> TRUE,
      inheritParent |-> ClassDeclarationA.id, inherited |-> names,
      inheritedChildren |-> {ClassDeclarationA.id}] :
        d \in isDeclarations, x \in isExternals, names \in inheriteds}

Calls(nodes, kinds, names) == [node : nodes, kind : kinds, name : names]

\* the declaration of a member "a" by an earlier invocation
PriorNode(parent, mods) ==
    [kind |-> "MethodDeclaration", parent |-> parent, modifiers |-> mods,
     questionToken |-> FALSE, symbol |-> 1, localSymbol |-> NoSymbol]

WithSignature(kids) ==
    [i \in DOMAIN kids |->
        [kids[i] EXCEPT !.signatures = Append(@, NewSignature)]]

\* Export resolution and the exclusion rules: every scope, every kind of the
\* model, every syntactic position, every set of the modifiers read before
\* the lookup
ExportKinds == {"Module", "Class", "ExternalModule", "Function", "Method"}
ExportModifiers == SUBSET {"Export", "Ambient", "Private", "Static"}
ExportNodes ==
    NodesOf(Shapes \ {<<"MethodDeclaration", ClassDeclarationB>>},
            ExportModifiers, {1}, {NoSymbol}, {FALSE})
        \cup {UnnamedNode}

InitExport ==
    /\ scope \in StepScopes
    /\ children \in {<<>>,
                     ChildrenAfter(scope, PriorNode(ClassDeclarationB, {}), "Module")}
    /\ context \in StepContexts(BOOLEAN, {FALSE}, {NamesOf(children)})
    /\ converter \in [mode : {"Modules", "File"}, excludeNotExported : BOOLEAN]
    /\ call \in Calls(ExportNodes, ExportKinds, {NoName})

\* Static resolution, naming, the flags of a new reflection and the merge of
\* an existing one: class and module scopes, every set of the modifiers
\* projected into flags
FlagKinds == {"Class", "Function", "Method", "Property"}
FlagModifiers ==
    {c \cup o :
        c \in SUBSET {"Static", "Private"},
        o \in {{}, {"Protected"}, {"Readonly"}, {"Protected", "Abstract"},
               {"Public", "Readonly"}}}
FlagNodes == NodesOf(Shapes, FlagModifiers, {1, 2}, {NoSymbol}, BOOLEAN)

InitFlags ==
    /\ scope \in {ScopeOf("Class", TRUE), ScopeOf("Module", FALSE)}
    /\ children \in
         LET prior == {ChildrenAfter(scope, PriorNode(ClassDeclarationB, {}), "Method"),
                       ChildrenAfter(scope, PriorNode(ConstructorA, {}), "Property")}
         IN  {<<>>} \cup prior \cup {WithSignature(kids) : kids \in prior}
    /\ context \in StepContexts({FALSE}, BOOLEAN, {{}, NamesOf(children)})
    /\ converter = PlainConverter
    /\ call \in Calls(FlagNodes, FlagKinds, {NoName})

\* Naming: the name argument, the local symbol and the symbol of the node
NameNodes ==
    {[kind |-> "MethodDeclaration", parent |-> ClassDeclarationB, modifiers |-> {},
      questionToken |-> FALSE, symbol |-> s, localSymbol |-> l] :
        s \in Symbols, l \in {NoSymbol, 1, 3}}
    \cup
    {[kind |-> "MethodDeclaration", parent |-> ClassDeclarationB, modifiers |-> {},
      questionToken |-> FALSE, symbol |-> NoSymbol, localSymbol |-> NoSymbol]}

InitNames ==
    /\ scope \in {ScopeOf("Class", TRUE), ScopeOf("Module", FALSE)}
    /\ children \in
         {<<>>, ChildrenAfter(scope, PriorNode(ClassDeclarationB, {}), "Method")}
    /\ context = PlainContext
    /\ converter = PlainConverter
    /\ call \in Calls(NameNodes, {"Method", "Class"}, {NoName, "a", "b"})

InitStep ==
    /\ InitExport \/ InitFlags \/ InitNames
    /\ registry = RegistryOf(children)
    /\ events = <<>>
    /\ ret = Idle

\* the invocation the caller is about to make
invoke == createDeclaration(call.node, call.kind, call.name)

NextStep == invoke

SpecStep == InitStep /\ [][NextStep]_vars

---------------------------------------------------------------------------
(* SpecPopulated: one invocation that meets a container whose children     *)
(* were not all put there by createDeclaration: container.children is a    *)
(* public array other converters and plugins push to, so that several      *)
(* children can match one (name, isStatic) pair.                           *)

\* the reflections other code may have put into the container
PopulatedReflections ==
    {setFlag(newDeclarationReflection(0, name, kind), "Static", static) :
        name \in {"a", "b"}, kind \in {"Module", "Method"}, static \in BOOLEAN}

\* the children sequences of the populated container, numbered in insertion
\* order
PopulatedChildren ==
    {[i \in 1..MaxChildren |-> [f[i] EXCEPT !.id = i]] :
        f \in [1..MaxChildren -> PopulatedReflections]}

PopulatedNodes ==
    NodesOf({<<"MethodDeclaration", ClassDeclarationA>>}, {{}, {"Static"}},
            {1, 3}, {NoSymbol}, {FALSE})

InitPopulated ==
    /\ scope \in {ScopeOf("Class", TRUE), ScopeOf("Module", FALSE)}
    /\ children \in PopulatedChildren \cup {WithSignature(kids) : kids \in PopulatedChildren}
    /\ context \in StepContexts({FALSE}, {FALSE}, {NamesOf(children)})
    /\ converter = PlainConverter
    /\ call \in Calls(PopulatedNodes, {"Class", "Method"}, {NoName})
    /\ registry = RegistryOf(children)
    /\ events = <<>>
    /\ ret = Idle

NextPopulated == invoke

SpecPopulated == InitPopulated /\ [][NextPopulated]_vars

---------------------------------------------------------------------------
(* Vocabulary of the properties *)

\* the latest invocation has returned (or thrown)
Returned == ret.outcome # "none"

\* the node of the latest invocation is named: by the name argument, its
\* local symbol or its symbol
NamedCall ==
    \/ call.name # NoName
    \/ call.node.localSymbol # NoSymbol
    \/ call.node.symbol # NoSymbol

\* the rank of a kind in the order Module < Enum < Class, -1 for other kinds
KindRank(kind) ==
    CASE kind = "Module" -> 0
      [] kind = "Enum" -> 1
      [] kind = "Class" -> 2
      [] OTHER -> -1

IsStatic(reflection) == "Static" \in reflection.flags

\* the step is an invocation that found child i and merged the node into it
MergedInto(i) ==
    /\ ret.outcome = "none"
    /\ ret'.outcome \in {"merged", "override"}
    /\ i \in DOMAIN children
    /\ children[i].name = ret'.name
    /\ IsStatic(children[i]) = ret'.isStatic

---------------------------------------------------------------------------
(* Properties *)

\* C1: no container has two children with the same (name, isStatic) pair,
\* after any sequence of invocations.
C1_UniqueChildren ==
    \A i, j \in DOMAIN children :
        (children[i].name = children[j].name
         /\ IsStatic(children[i]) = IsStatic(children[j])) => i = j

\* C1 witness: an invocation found the existing child among two children of
\* the same name and merged into it instead of adding a third.
C1_Witness ==
    /\ Len(children) = 2
    /\ children[1].name = children[2].name
    /\ ret.outcome = "merged"
    /\ ret.child = 2

\* C2: inheritedFrom and overwrites are write-once: a reference held by a
\* reflection, or by one of its signatures, is the same after every step, and
\* the reflection stays where it is.
C2_WriteOnce ==
    [][\A i \in DOMAIN children :
          /\ i \in DOMAIN children'
          /\ children[i].inheritedFrom # NoReference
                => children'[i].inheritedFrom = children[i].inheritedFrom
          /\ children[i].overwrites # NoReference
                => children'[i].overwrites = children[i].overwrites
          /\ \A k \in DOMAIN children[i].signatures :
                /\ k \in DOMAIN children'[i].signatures
                /\ children[i].signatures[k].inheritedFrom # NoReference
                      => children'[i].signatures[k].inheritedFrom
                            = children[i].signatures[k].inheritedFrom
                /\ children[i].signatures[k].overwrites # NoReference
                      => children'[i].signatures[k].overwrites
                            = children[i].signatures[k].overwrites]_vars

\* C2 witness: a merge met the override condition again, with another symbol
\* than the one the reflection and its signature already refer to.
C2_Witness ==
    /\ ret.outcome = "override"
    /\ \E i \in DOMAIN children :
          /\ children[i].name = ret.name
          /\ children[i].overwrites # NoReference
          /\ children[i].overwrites.symbolID # call.node.symbol
          /\ children[i].signatures # <<>>
          /\ children[i].signatures[1].overwrites = children[i].overwrites

\* C3: the rank of a reflection's kind under Module < Enum < Class never
\* decreases; a Module merged with an incoming Class becomes Class, and a
\* Class merged with an incoming Module or Enum stays Class.
C3_KindMonotonic ==
    [][\A i \in DOMAIN children :
          /\ i \in DOMAIN children'
          /\ KindRank(children'[i].kind) >= KindRank(children[i].kind)
          /\ (MergedInto(i) /\ children[i].kind = "Module" /\ call'.kind = "Class")
                => children'[i].kind = "Class"
          /\ (MergedInto(i) /\ children[i].kind = "Class"
                /\ call'.kind \in {"Module", "Enum"})
                => children'[i].kind = "Class"]_vars

\* C3 witness: a Class reflection was merged with an incoming Module and is
\* still a Class.
C3_Witness ==
    /\ ret.outcome = "merged"
    /\ call.kind = "Module"
    /\ children[ret.child].kind = "Class"

\* C4: a named node with the ambient modifier resolves isExported = true,
\* whatever the container, the kind and the export modifier; it is never
\* dropped as not exported, and a reflection created for it is exported.
C4_AmbientExported ==
    (Returned /\ scope.isContainer /\ NamedCall /\ "Ambient" \in call.node.modifiers)
        => /\ ret.isExported
           /\ ret.outcome \in {"private", "created", "merged", "override"}
           /\ ret.outcome = "created"
                => "Exported" \in children[ret.child].flags

\* C4 witness: an ambient node without export modifier, in an unexported
\* container outside declaration files, with excludeNotExported set, got a
\* new exported reflection.
C4_Witness ==
    /\ ret.outcome = "created"
    /\ call.node.modifiers = {"Ambient"}
    /\ ~scope.isExported /\ ~scope.isProject
    /\ ~context.isDeclaration
    /\ call.kind # "ExternalModule"
    /\ converter.excludeNotExported
    /\ "Exported" \in children[ret.child].flags

\* C5: a function or variable declaration with the export modifier in an
\* unexported Module container resolves isExported = true and is not dropped
\* as not exported; unless it is a private member met during an inheritance
\* walk or a child of its name exists, an exported reflection is created.
C5_ExportedInUnexportedModule ==
    [][(/\ ret'.outcome # "none"
        /\ scope.kind = "Module" /\ ~scope.isExported
        /\ call'.node.kind \in {"FunctionDeclaration", "VariableDeclaration"}
        /\ "Export" \in call'.node.modifiers)
       => /\ ret'.isExported
          /\ ret'.outcome \in {"private", "created", "merged", "override"}
          /\ (/\ ~(context.isInherit /\ "Private" \in call'.node.modifiers)
              /\ \A i \in DOMAIN children : children[i].name # ret'.name)
                => /\ ret'.outcome = "created"
                   /\ "Exported" \in children'[ret'.child].flags]_vars

\* C5 witness: an exported function declaration in an unexported Module got
\* a new exported reflection although excludeNotExported is set and nothing
\* else forces the export.
C5_Witness ==
    /\ ret.outcome = "created"
    /\ scope.kind = "Module" /\ ~scope.isExported
    /\ call.node.kind = "FunctionDeclaration"
    /\ call.node.modifiers = {"Export"}
    /\ call.kind = "Function"
    /\ ~context.isDeclaration
    /\ converter.excludeNotExported
    /\ "Exported" \in children[ret.child].flags

\* the latest invocation is the scenario of C6: an unexported container that
\* is not the project, outside declaration files, a named node of kind Method
\* with neither ambient nor export modifier, excludeNotExported set
UnexportedMethodCall ==
    /\ Returned
    /\ scope.isContainer /\ ~scope.isProject /\ ~scope.isExported
    /\ ~context.isDeclaration
    /\ converter.excludeNotExported
    /\ call.kind = "Method"
    /\ NamedCall
    /\ call.node.modifiers \cap {"Ambient", "Export"} = {}

\* C6: when the resolved export value is false and excludeNotExported is set,
\* the invocation returns no reflection, whatever the private and static
\* modifiers, the inheritance mode and the children: it changes no child, no
\* registry entry, and notifies nobody.
C6_ExportExclusionFirst ==
    [][(UnexportedMethodCall'
        \/ (ret'.outcome \notin {"none", "throw", "unnamed"}
            /\ ~ret'.isExported /\ converter.excludeNotExported))
       => /\ ret'.outcome = "notExported"
          /\ ret'.child = 0
          /\ children' = children
          /\ registry' = registry
          /\ events' = <<>>]_vars

\* C6 witness: a private static method, met during an inheritance walk in a
\* container that already holds a child of its name, was dropped as not
\* exported.
C6_Witness ==
    /\ ret.outcome = "notExported"
    /\ call.kind = "Method"
    /\ {"Private", "Static"} \subseteq call.node.modifiers
    /\ context.isInherit
    /\ \E i \in DOMAIN children : children[i].name = ret.name

\* C7: an invocation during an inheritance walk whose node is private
\* returns no reflection: it creates none, changes no child (no merge, no
\* overwrites), no registry entry, and notifies nobody.
C7_PrivateNotInherited ==
    [][(ret'.outcome # "none" /\ context.isInherit
        /\ "Private" \in call'.node.modifiers)
       => /\ ret'.child = 0
          /\ ret'.outcome \notin {"created", "merged"}
          /\ children' = children
          /\ registry' = registry
          /\ events' = <<>>]_vars

\* C7 witness: a private node was dropped by the inheritance rule although
\* the container holds a child of its name the walk would override.
C7_Witness ==
    /\ ret.outcome = "private"
    /\ \E i \in DOMAIN children :
          /\ children[i].name = ret.name
          /\ IsStatic(children[i]) = ("Static" \in call.node.modifiers)
          /\ children[i].name \in context.inherited
    /\ call.node.parent.id = context.inheritParent

\* C8: a merge during an inheritance walk into a child whose name is
\* inherited, from a node whose parent is the inheritance parent (or into a
\* constructor property), returns no reflection, sets overwrites on the
\* child and on each of its signatures if the child's overwrites was unset,
\* and leaves the child in the children.
C8_Override ==
    [][\A i \in DOMAIN children :
          (/\ MergedInto(i)
           /\ context.isInherit
           /\ children[i].name \in context.inherited
           /\ \/ call'.node.parent.id = context.inheritParent
              \/ "ConstructorProperty" \in children[i].flags)
          => /\ ret'.outcome = "override"
             /\ ret'.child = 0
             /\ events' = <<>>
             /\ Len(children') = Len(children)
             /\ children'[i].id = children[i].id
             /\ children'[i].name = children[i].name
             /\ Len(children'[i].signatures) = Len(children[i].signatures)
             /\ IF children[i].overwrites = NoReference
                THEN /\ children'[i].overwrites
                            = createReferenceType(call'.node.symbol)
                     /\ \A k \in DOMAIN children[i].signatures :
                            children'[i].signatures[k].overwrites
                                = createReferenceType(call'.node.symbol)
                ELSE /\ children'[i].overwrites = children[i].overwrites
                     /\ \A k \in DOMAIN children[i].signatures :
                            children'[i].signatures[k].overwrites
                                = children[i].signatures[k].overwrites]_vars

\* C8 witness: an override was recorded on a reflection and its signature,
\* through the constructor property of the existing child.
C8_Witness ==
    /\ ret.outcome = "override"
    /\ call.node.parent.id # context.inheritParent
    /\ \E i \in DOMAIN children :
          /\ children[i].name = ret.name
          /\ "ConstructorProperty" \in children[i].flags
          /\ children[i].overwrites = createReferenceType(call.node.symbol)
          /\ children[i].signatures # <<>>
          /\ children[i].signatures[1].overwrites
                = createReferenceType(call.node.symbol)

\* the latest invocation is the case of C9: a Class container, a kind other
\* than Class, Interface and Module, a node below a constructor
ConstructorParameterCall ==
    /\ scope.kind = "Class"
    /\ call.kind \notin {"Class", "Interface", "Module"}
    /\ call.node.parent.kind = "Constructor"

\* C9 as stated: the reflection created for a node below a constructor in a
\* Class container is a constructor property and is not static.
C9_Original ==
    (/\ ret.outcome = "created"
     /\ ConstructorParameterCall
     /\ \A i \in DOMAIN children : i # ret.child => children[i].name # ret.name)
        => /\ "ConstructorProperty" \in children[ret.child].flags
           /\ ~IsStatic(children[ret.child])

\* C9, amended: in that case, when no child of the name exists and the
\* invocation is not excluded, a new reflection is created; it is a
\* constructor property, and it is static exactly if the node carries the
\* static modifier (the container does not force it static).
C9_ConstructorProperty ==
    [][(/\ ConstructorParameterCall'
        /\ ret'.outcome \notin {"none", "throw", "unnamed", "notExported", "private"}
        /\ \A i \in DOMAIN children : children[i].name # ret'.name)
       => /\ ret'.outcome = "created"
          /\ Len(children') = Len(children) + 1
          /\ ret'.child = Len(children')
          /\ children'[ret'.child].name = ret'.name
          /\ "ConstructorProperty" \in children'[ret'.child].flags
          /\ IsStatic(children'[ret'.child])
                = ("Static" \in call'.node.modifiers)]_vars

\* C9 witness: a constructor parameter without static modifier got a new
\* reflection that is a constructor property and not static.
C9_Witness ==
    /\ ret.outcome = "created"
    /\ ConstructorParameterCall
    /\ call.kind = "Property"
    /\ "Static" \notin call.node.modifiers
    /\ "ConstructorProperty" \in children[ret.child].flags
    /\ ~IsStatic(children[ret.child])

\* the flags a reflection created by the latest invocation has to carry
ExpectedFlags ==
    {f \in {"Static"} : ret.isStatic}
    \cup {f \in {"ConstructorProperty"} : ret.isConstructorProperty}
    \cup {f \in {"Exported"} : ret.isExported}
    \cup {f \in {"External"} : context.isExternal}
    \cup {f \in {"Optional"} : call.node.questionToken}
    \cup {f \in {"Private", "Protected", "Public", "Abstract", "Readonly", "Ambient"} :
            f \in call.node.modifiers}

\* the inheritedFrom a reflection created by the latest invocation has to
\* carry
ExpectedInheritedFrom ==
    IF context.isInherit
       /\ (call.node.parent.id = context.inheritParent \/ ret.isConstructorProperty)
    THEN createReferenceType(call.node.symbol)
    ELSE NoReference

\* C10: a created reflection is notified once; the listener is handed the
\* reflection with all its flags and its inheritedFrom, already a child of
\* the container and already registered, and the caller gets the same.
C10_CompleteBeforeNotified ==
    ret.outcome = "created"
        => /\ ret.child \in DOMAIN children
           /\ ret.child \in registry
           /\ children[ret.child].flags = ExpectedFlags
           /\ children[ret.child].inheritedFrom = ExpectedInheritedFrom
           /\ Len(events) = 1
           /\ events[1].reflection = children[ret.child]
           /\ events[1].isChild
           /\ events[1].isRegistered

\* C10 witness: a reflection created during an inheritance walk in an
\* external file, with flags from each step of the construction and an
\* inheritedFrom, was notified.
C10_Witness ==
    /\ ret.outcome = "created"
    /\ Len(events) = 1
    /\ {"Static", "Public", "Exported", "External", "Optional", "Readonly"}
          \subseteq events[1].reflection.flags
    /\ events[1].reflection.inheritedFrom # NoReference

\* the step is an invocation that returned no reflection because the node
\* is unnamed, not exported under excludeNotExported, or private during an
\* inheritance walk
Excluded ==
    /\ ret.outcome = "none"
    /\ ret'.outcome # "none"
    /\ scope.isContainer
    /\ \/ (call'.name = NoName /\ call'.node.localSymbol = NoSymbol
           /\ call'.node.symbol = NoSymbol)
       \/ ret'.outcome = "unnamed"
       \/ (ret'.outcome # "unnamed"
           /\ ~ret'.isExported /\ converter.excludeNotExported)
       \/ ret'.outcome = "notExported"
       \/ (context.isInherit /\ "Private" \in call'.node.modifiers)
       \/ ret'.outcome = "private"

\* C11: an invocation whose node is unnamed, dropped as not exported, or
\* private during an inheritance walk returns no reflection, leaves the
\* children (their order, kinds, flags, inheritedFrom and overwrites) and the
\* registry as they were and notifies nobody; and no invocation at all removes
\* or reorders a child.
C11_ExclusionBeforeCreation ==
    [][/\ Excluded
          => /\ ret'.outcome \in {"unnamed", "notExported", "private"}
             /\ ret'.child = 0
             /\ children' = children
             /\ registry' = registry
             /\ events' = <<>>
       /\ \A i \in DOMAIN children :
             /\ i \in DOMAIN children'
             /\ children'[i].id = children[i].id
             /\ children'[i].name = children[i].name
       /\ registry \subseteq registry']_vars

\* C11 witness: an unnamed node (no name argument, no local symbol, no
\* symbol) met a container that holds a child and a converter that keeps
\* unexported declarations; nothing was returned.
C11_Witness ==
    /\ ret.outcome = "unnamed"
    /\ call.name = NoName
    /\ call.node.localSymbol = NoSymbol /\ call.node.symbol = NoSymbol
    /\ ~converter.excludeNotExported
    /\ ~context.isInherit
    /\ Len(children) = 1
    /\ events = <<>>

\* the kind is one of the ranked kinds Module, Enum, Class
Ranked(kind) == kind \in {"Module", "Enum", "Class"}

\* C12 as stated: a merge replaces the kind only when both kinds are ranked
\* and the incoming kind strictly outranks the existing one; an unranked
\* existing or incoming kind leaves the kind untouched.
C12_Original ==
    [][\A i \in DOMAIN children :
          MergedInto(i)
          => children'[i].kind =
                IF /\ Ranked(call'.kind) /\ Ranked(children[i].kind)
                   /\ KindRank(call'.kind) > KindRank(children[i].kind)
                THEN call'.kind
                ELSE children[i].kind]_vars

\* C12, amended: a merge replaces the kind exactly when the incoming kind is
\* ranked and the existing kind is unranked or of a strictly lower rank; an
\* unranked incoming kind, or one of equal or lower rank, leaves the kind
\* untouched.
C12_KindReplaced ==
    [][\A i \in DOMAIN children :
          MergedInto(i)
          => children'[i].kind =
                IF /\ Ranked(call'.kind)
                   /\ \/ ~Ranked(children[i].kind)
                      \/ KindRank(call'.kind) > KindRank(children[i].kind)
                THEN call'.kind
                ELSE children[i].kind]_vars

\* C12 witness: an incoming unranked kind (Method) was merged into a ranked
\* reflection (Enum), which kept its kind, next to a second child.
C12_Witness ==
    /\ ret.outcome = "merged"
    /\ call.kind = "Method"
    /\ children[ret.child].kind = "Enum"
    /\ Len(children) = 2

\* C13: an invocation that returns nothing through the override check leaves
\* the existing reflection's kind, flags, name, inheritedFrom and position as
\* they were; only its overwrites, and that of its signatures, may be set, and
\* only if it was unset.
C13_OverrideContributesNothing ==
    [][\A i \in DOMAIN children :
          (MergedInto(i) /\ ret'.outcome = "override")
          => /\ Len(children') = Len(children)
             /\ \A j \in DOMAIN children : j # i => children'[j] = children[j]
             /\ children'[i].id = children[i].id
             /\ children'[i].name = children[i].name
             /\ children'[i].kind = children[i].kind
             /\ children'[i].flags = children[i].flags
             /\ children'[i].inheritedFrom = children[i].inheritedFrom
             /\ children[i].overwrites # NoReference
                   => children'[i].overwrites = children[i].overwrites]_vars

\* C14: an invocation that finds an existing child changes none of its
\* flags, whatever the modifiers of the incoming node and the context resolve
\* to; the flags of the other children stay as well.
C14_FlagsFixedAtCreation ==
    [][\A i \in DOMAIN children :
          /\ MergedInto(i) => children'[i].flags = children[i].flags
          /\ i \in DOMAIN children' /\ children'[i].flags = children[i].flags]_vars

\* C14 witness: a child created unexported was merged with a declaration of
\* its name that carries the export modifier: the incoming node resolves
\* exported, the child still has no flag at all.
C14_Witness ==
    /\ ret.outcome = "merged"
    /\ ret.isExported
    /\ "Export" \in call.node.modifiers
    /\ children[ret.child].flags = {}

\* C15: an invocation notifies exactly once, with the reflection it returns
\* and its node, if it returns a reflection (created or merged), and not at
\* all if it returns nothing (unnamed, excluded, override) or throws.
C15_NotificationMatchesResult ==
    Returned
        => /\ (ret.child # 0) = (ret.outcome \in {"created", "merged"})
           /\ IF ret.child # 0
              THEN /\ Len(events) = 1
                   /\ ret.child \in DOMAIN children
                   /\ events[1].reflection = children[ret.child]
                   /\ events[1].symbol = call.node.symbol
              ELSE events = <<>>

\* C15 witness: a merge into the only child, accepted during an inheritance
\* walk, notified the merged reflection with the symbol of the incoming node,
\* which is not the symbol of the declaration that created the child.
C15_Witness ==
    /\ ret.outcome = "merged"
    /\ context.isInherit
    /\ Len(children) = 1
    /\ call.node.symbol = 2
    /\ Len(events) = 1
    /\ events[1].reflection.id = 1
    /\ events[1].symbol = 2

\* the positions of the children the lookup of the invocation matches
Matches ==
    {i \in DOMAIN children :
        children[i].name = ret'.name /\ IsStatic(children[i]) = ret'.isStatic}

\* the child at position i after the merge of the invocation into it
MergedChild(i) ==
    LET kind == IF KindRank(call'.kind) > KindRank(children[i].kind)
                THEN call'.kind ELSE children[i].kind
        overridden == ret'.outcome = "override" /\ children[i].overwrites = NoReference
    IN  [children[i] EXCEPT
            !.kind = kind,
            !.overwrites = IF overridden
                           THEN createReferenceType(call'.node.symbol) ELSE @,
            !.signatures = [k \in DOMAIN @ |->
                [@[k] EXCEPT !.overwrites =
                    IF overridden
                    THEN createReferenceType(call'.node.symbol) ELSE @]]]

\* the invocation merged into the child at position i and into no other
MergeAppliedTo(i) ==
    /\ ret'.outcome = "merged" => ret'.child = children[i].id
    /\ Len(children') = Len(children)
    /\ children'[i] = MergedChild(i)
    /\ \A j \in DOMAIN children : j # i => children'[j] = children[j]
    /\ ret'.outcome = "merged" => events'[1].reflection = children'[i]

\* C16 as stated: among several children matching the resolved (name,
\* isStatic) pair, the merge is applied to the first in insertion order and
\* to no other.
C16_Original ==
    [][(ret.outcome = "none" /\ ret'.outcome \in {"merged", "override"})
       => \A i \in Matches :
             (\A j \in Matches : i <= j) => MergeAppliedTo(i)]_vars

\* C16, amended: among several children matching the resolved (name,
\* isStatic) pair, the merge (kind, overwrites, returned and notified
\* reflection) is applied to the last in insertion order and to no other.
C16_LastMatch ==
    [][(ret.outcome = "none" /\ ret'.outcome \in {"merged", "override"})
       => /\ Matches # {}
          /\ \A i \in Matches :
                (\A j \in Matches : j <= i) => MergeAppliedTo(i)]_vars

\* C16 witness: two Module children share the name and the static flag of
\* the incoming Class declaration; the second became a Class and was
\* returned, the first is still a Module.
C16_Witness ==
    /\ ret.outcome = "merged"
    /\ Len(children) >= 2
    /\ children[1].name = ret.name /\ children[2].name = ret.name
    /\ ~IsStatic(children[1]) /\ ~IsStatic(children[2])
    /\ call.kind = "Class"
    /\ children[1].kind = "Module"
    /\ children[2].kind = "Class"
    /\ ret.child = 2

\* the step is an invocation, in a container, for a named variable or
\* function declaration node
DeclarationNodeCall ==
    /\ ret.outcome = "none"
    /\ ret'.outcome \notin {"none", "throw", "unnamed"}
    /\ call'.node.kind \in {"VariableDeclaration", "FunctionDeclaration"}

\* the outcome of the same invocation in the same state, had the container
\* the other value of isExported
TwinOutcome ==
    declare([scope EXCEPT !.isExported = ~@], children, registry, context,
            converter, call'.node, call'.kind, call'.name).ret

\* C17 as stated: for a variable or function declaration node, the resolved
\* isExported and the outcome do not depend on the isExported flag of the
\* container, whatever the kind of the container and the target kind.
C17_Original ==
    [][DeclarationNodeCall
       => /\ TwinOutcome.isExported = ret'.isExported
          /\ TwinOutcome.outcome = ret'.outcome]_vars

\* C17, amended: that independence holds for every container that is not an
\* object literal or a type literal; in an object or type literal container
\* the node starts from the container's isExported flag, which decides the
\* resolved value when nothing forces the export and no export modifier is
\* present.
C17_ExportIndependent ==
    [][DeclarationNodeCall
       => IF scope.kind \notin {"ObjectLiteral", "TypeLiteral"}
          THEN /\ TwinOutcome.isExported = ret'.isExported
               /\ TwinOutcome.outcome = ret'.outcome
          ELSE (/\ call'.kind # "ExternalModule"
                /\ ~context.isDeclaration
                /\ "Ambient" \notin call'.node.modifiers
                /\ "Export" \notin call'.node.modifiers)
               => /\ ret'.isExported = scope.isExported
                  /\ TwinOutcome.isExported = ~scope.isExported]_vars

\* C17 witness: a function declaration without export modifier, converted as
\* a Method into an exported Class container, resolved unexported and was
\* dropped: the exported state of the container was not inherited.
C17_Witness ==
    /\ ret.outcome = "notExported"
    /\ call.node.kind = "FunctionDeclaration"
    /\ call.kind = "Method"
    /\ scope.kind = "Class" /\ scope.isExported
    /\ ~ret.isExported

\* the step is an invocation in a Class container, for a kind other than
\* Class, Interface and Module, that reached the static resolution
ClassMemberCall ==
    /\ ret.outcome = "none"
    /\ ret'.outcome \in {"created", "merged", "override"}
    /\ scope.kind = "Class"
    /\ call'.kind \notin {"Class", "Interface", "Module"}

\* C18: in a Class container, for a kind other than Class, Interface and
\* Module, a node whose parent is neither a constructor nor a class
\* declaration (or that has no parent) resolves static whatever its
\* modifiers, and a node whose parent is a class declaration resolves static
\* exactly if it carries the static modifier; the forced static node never
\* touches an instance member of its name: it gets a child of its own.
C18_ForcedStatic ==
    [][ClassMemberCall
       => /\ call'.node.parent.kind \notin {"Constructor", "ClassDeclaration"}
             => /\ ret'.isStatic
                /\ ~ret'.isConstructorProperty
                /\ \A i \in DOMAIN children :
                      ~IsStatic(children[i]) => children'[i] = children[i]
                /\ (\A i \in DOMAIN children :
                       children[i].name = ret'.name => ~IsStatic(children[i]))
                      => /\ ret'.outcome = "created"
                         /\ Len(children') = Len(children) + 1
                         /\ IsStatic(children'[Len(children')])
                         /\ children'[Len(children')].name = ret'.name
          /\ call'.node.parent.kind = "ClassDeclaration"
             => /\ ret'.isStatic = ("Static" \in call'.node.modifiers)
                /\ ~ret'.isConstructorProperty
                /\ ret'.outcome = "created"
                      => IsStatic(children'[ret'.child])
                            = ("Static" \in call'.node.modifiers)]_vars

\* C18 witness: the class holds an instance member; a function declaration
\* of the same name from a module block, without static modifier, got a static
\* child of its own next to it.
C18_Witness ==
    /\ ret.outcome = "created"
    /\ scope.kind = "Class"
    /\ call.node.kind = "FunctionDeclaration"
    /\ call.node.parent.kind = "ModuleBlock"
    /\ "Static" \notin call.node.modifiers
    /\ Len(children) = 2
    /\ children[1].name = children[2].name
    /\ ~IsStatic(children[1])
    /\ IsStatic(children[2])
    /\ ret.child = 2

\* C19: after any sequence of invocations on a container that started
\* empty, no child of kind Class, Interface or Module is static: such a kind
\* is created non-static, and a merge can give it only to a child that is not
\* static.
C19_ContainerKindsNotStatic ==
    \A i \in DOMAIN children :
        children[i].kind \in {"Class", "Interface", "Module"}
            => ~IsStatic(children[i])

\* C19 witness: a static child of kind Enum and a child of the same name of
\* kind Class that is not static; the latest invocation, for a Class whose
\* node carries the static modifier, was merged into the second.
C19_Witness ==
    /\ Len(children) = 2
    /\ children[1].name = children[2].name
    /\ IsStatic(children[1]) /\ children[1].kind = "Enum"
    /\ ~IsStatic(children[2]) /\ children[2].kind = "Class"
    /\ ret.outcome = "merged"
    /\ call.kind = "Class"
    /\ "Static" \in call.node.modifiers
    /\ ret.child = 2

\* the provenance references of the children, by position
Provenance(kids) ==
    [i \in DOMAIN kids |->
        <<kids[i].inheritedFrom, kids[i].overwrites,
          [k \in DOMAIN kids[i].signatures |->
              <<kids[i].signatures[k].inheritedFrom,
                kids[i].signatures[k].overwrites>>]>>]

\* C20: after any sequence of invocations and inheritance walks, no
\* reflection has both inheritedFrom and overwrites set; and an invocation
\* outside an inheritance walk sets neither field, on no child, old or new.
C20_ProvenanceExclusive ==
    [][/\ \A i \in DOMAIN children' :
             ~(/\ children'[i].inheritedFrom # NoReference
               /\ children'[i].overwrites # NoReference)
       /\ (ret.outcome = "none" /\ ret'.outcome # "none" /\ ~context.isInherit)
             => /\ \A i \in DOMAIN children :
                      Provenance(children')[i] = Provenance(children)[i]
                /\ \A i \in DOMAIN children' \ DOMAIN children :
                      /\ children'[i].inheritedFrom = NoReference
                      /\ children'[i].overwrites = NoReference]_vars

====
